---- MODULE Spec2Model ----
(***************************************************************************)
(* Model of the RustBuddy trigger layer:                                   *)
(*   - buddy/src/hotkey.rs: the hotkey grammar parser (parse_hotkey,       *)
(*     parse_code), the native HotkeyListener (OS registration, worker     *)
(*     thread, unbounded channel, wait) and the fallback HotkeyListener    *)
(*     (one line of standard input per wait);                              *)
(*   - buddy/src/transcription.rs: Transcriber::transcribe, extract_text.  *)
(*                                                                         *)
(* A Rust String is a sequence of one-character strings, so that split,    *)
(* trim and to_lowercase are computed rather than assumed.                 *)
(***************************************************************************)
EXTENDS Integers, Sequences, FiniteSets, TLC

VARIABLES
    hotkey,      \* parser: the argument of the parse_hotkey call
    parsed,      \* parser: what that call returned
    life,        \* native: listener -> "none" | "alive" | "dropped"
    hotkey_id,   \* native: listener -> id of its HotKey (hotkey.id())
    rx,          \* native: listener -> signals queued in its channel
    worker,      \* native: listener -> "none" | "running" | "exited" (holds tx)
    waiting,     \* native: listener -> a wait() is suspended in rx.recv()
    waitRet,     \* native: listener -> what its last wait() returned
    got,         \* native: listener -> signals its wait() calls returned Ok for
    registered,  \* native: hotkeys registered with the OS, by owning manager
    events,      \* native: the process-wide GlobalHotKeyEvent channel
    sourceOpen,  \* native: that channel still has its sender
    emitted,     \* native: number of hotkey events the OS has posted
    seen,        \* native: listener -> matching events its worker received
    lastNew,     \* native: what the last HotkeyListener::new call did
    label,       \* fallback: the listener's label, NoLabel before new
    stdin,       \* fallback: what standard input holds, then end of input
    pos,         \* fallback: how much of stdin has been read
    fbLast,      \* fallback: what the last wait() did
    fbOks,       \* fallback: number of wait() calls that returned Ok(())
    fbLines,     \* fallback: number of completed lines wait() calls consumed
    fbCalls,     \* fallback: number of wait() calls
    model,       \* transcriber: the loaded model, NoModel before new
    sample_rate, \* transcriber: the rate given to new
    pc,          \* transcriber: caller -> where its transcribe call stands
    audio,       \* transcriber: caller -> the buffer of its call
    recognizer,  \* transcriber: caller -> id of the recognizer of its call
    heap,        \* transcriber: the live recognizers, by id
    ret,         \* transcriber: caller -> what its last call returned
    returned,    \* transcriber: (audio, text) of every call that returned Ok
    created,     \* transcriber: number of recognizers created
    calls,       \* transcriber: number of transcribe calls made
    complete,    \* extraction: the CompleteResult handed to extract_text
    extracted    \* extraction: what extract_text returned for it

parserVars == <<hotkey, parsed>>

nativeVars == <<life, hotkey_id, rx, worker, waiting, waitRet, got, registered,
                events, sourceOpen, emitted, seen, lastNew>>

fallbackVars == <<label, stdin, pos, fbLast, fbOks, fbLines, fbCalls>>

transcriberVars == <<model, sample_rate, pc, audio, recognizer, heap, ret, returned,
                     created, calls>>

extractVars == <<complete, extracted>>

vars == <<parserVars, nativeVars, fallbackVars, transcriberVars, extractVars>>

(***************************************************************************)
(* Bounds                                                                  *)
(***************************************************************************)
MaxTokens == 3      \* '+'-separated tokens in a generated spec string

MaxListeners == 2   \* native listeners constructed in one run

MaxEvents == 2      \* hotkey events the OS posts in one run

MaxInput == 3       \* items standard input holds before its end

MaxWaits == 4       \* fallback wait() calls in one run

MaxCallers == 2     \* threads calling transcribe on one Transcriber

MaxCalls == 2       \* transcribe calls in one run

MaxSamples == 1     \* samples in an audio buffer

MaxAlternatives == 3  \* alternatives in a multi-hypothesis result

(***************************************************************************)
(* Strings                                                                 *)
(***************************************************************************)
Upper == <<"A","B","C","D","E","F","G","H","I","J","K","L","M",
           "N","O","P","Q","R","S","T","U","V","W","X","Y","Z">>

Lower == <<"a","b","c","d","e","f","g","h","i","j","k","l","m",
           "n","o","p","q","r","s","t","u","v","w","x","y","z">>

Digits == <<"0","1","2","3","4","5","6","7","8","9">>

WhiteSpace == {" ", "\t"}

\* char::to_lowercase on the characters of the model's alphabet
ToLowerChar(c) ==
    IF \E i \in 1..Len(Upper) : Upper[i] = c
    THEN Lower[CHOOSE i \in 1..Len(Upper) : Upper[i] = c]
    ELSE c

\* str::to_lowercase
to_lowercase(s) == [i \in 1..Len(s) |-> ToLowerChar(s[i])]

\* str::trim: strips leading and trailing white space
trim(s) ==
    LET keep == {i \in 1..Len(s) : s[i] \notin WhiteSpace}
    IN  IF keep = {} THEN <<>>
        ELSE LET lo == CHOOSE i \in keep : \A j \in keep : i <= j
                 hi == CHOOSE i \in keep : \A j \in keep : j <= i
             IN  SubSeq(s, lo, hi)

\* str::split('+'): the empty string gives one empty token
RECURSIVE split(_)
split(s) ==
    LET plus == {i \in 1..Len(s) : s[i] = "+"}
    IN  IF plus = {} THEN <<s>>
        ELSE LET p == CHOOSE i \in plus : \A j \in plus : i <= j
             IN  <<SubSeq(s, 1, p - 1)>> \o split(SubSeq(s, p + 1, Len(s)))

(***************************************************************************)
(* parse_code (hotkey.rs 89-130)                                           *)
(***************************************************************************)
KeyChars == Lower \o Digits

Codes == <<"KeyA","KeyB","KeyC","KeyD","KeyE","KeyF","KeyG","KeyH","KeyI",
          "KeyJ","KeyK","KeyL","KeyM","KeyN","KeyO","KeyP","KeyQ","KeyR",
          "KeyS","KeyT","KeyU","KeyV","KeyW","KeyX","KeyY","KeyZ","Digit0",
          "Digit1","Digit2","Digit3","Digit4","Digit5","Digit6","Digit7","Digit8","Digit9">>

NoCode == "None"

\* the 36-arm match: a one-character key a-z, 0-9, anything else is None
parse_code(key) ==
    IF Len(key) = 1 /\ \E i \in 1..Len(KeyChars) : KeyChars[i] = key[1]
    THEN Codes[CHOOSE i \in 1..Len(KeyChars) : KeyChars[i] = key[1]]
    ELSE NoCode

(***************************************************************************)
(* parse_hotkey (hotkey.rs 59-86)                                          *)
(***************************************************************************)
MissingKey == <<"m","i","s","s","i","n","g"," ","k","e","y">>

ParseOk(modifiers, code) ==
    [tag |-> "Ok", modifiers |-> modifiers, code |-> code, msg |-> <<>>]

ParseErr(msg) ==
    [tag |-> "Parse", modifiers |-> {}, code |-> NoCode, msg |-> msg]

\* line 73: let token = token.trim().to_lowercase()
token_no_lowercase(raw) == trim(raw)

token_of(raw) == to_lowercase(trim(raw))

\* lines 75-77: the modifier arms; {} when the token is no modifier
modifier_no_shift(token) ==
    IF token \in {<<"c","t","r","l">>, <<"c","o","n","t","r","o","l">>} THEN {"CONTROL"}
    ELSE IF token = <<"a","l","t">> THEN {"ALT"}
    ELSE {}

modifier_of(token) ==
    IF token \in {<<"c","t","r","l">>, <<"c","o","n","t","r","o","l">>} THEN {"CONTROL"}
    ELSE IF token = <<"a","l","t">> THEN {"ALT"}
    ELSE IF token = <<"s","h","i","f","t">> THEN {"SHIFT"}
    ELSE {}

\* lines 78-81: the `other` arm; `?` returns Parse(other) at once,
\* otherwise code is overwritten
other_arm_skip_bad(other, code) ==
    IF parse_code(other) = NoCode
    THEN [failed |-> FALSE, code |-> code]
    ELSE [failed |-> FALSE, code |-> parse_code(other)]

other_arm_first_wins(other, code) ==
    IF parse_code(other) = NoCode
    THEN [failed |-> TRUE, code |-> code]
    ELSE [failed |-> FALSE, code |-> IF code = NoCode THEN parse_code(other) ELSE code]

other_arm_skip_empty(other, code) ==
    IF other = <<>>
    THEN [failed |-> FALSE, code |-> code]
    ELSE IF parse_code(other) = NoCode
    THEN [failed |-> TRUE, code |-> code]
    ELSE [failed |-> FALSE, code |-> parse_code(other)]

other_arm(other, code) ==
    IF parse_code(other) = NoCode
    THEN [failed |-> TRUE, code |-> code]
    ELSE [failed |-> FALSE, code |-> parse_code(other)]

\* the loop with `modifiers ^= flag` for the `|=` of lines 75-77
RECURSIVE parse_loop_toggle(_, _, _, _)
parse_loop_toggle(tokens, i, modifiers, code) ==
    IF i > Len(tokens)
    THEN IF code = NoCode THEN ParseErr(MissingKey) ELSE ParseOk(modifiers, code)
    ELSE LET token == token_of(tokens[i])
         IN  IF modifier_of(token) # {}
             THEN parse_loop_toggle(tokens, i + 1,
                     (modifiers \ modifier_of(token)) \cup (modifier_of(token) \ modifiers), code)
             ELSE LET r == other_arm(token, code)
                  IN  IF r.failed THEN ParseErr(token)
                      ELSE parse_loop_toggle(tokens, i + 1, modifiers, r.code)

\* lines 72-83: the loop over hotkey.split('+'), from token i on
RECURSIVE parse_loop(_, _, _, _)
parse_loop(tokens, i, modifiers, code) ==
    IF i > Len(tokens)
    THEN \* line 84
         IF code = NoCode THEN ParseErr(MissingKey) ELSE ParseOk(modifiers, code)
    ELSE LET token == token_of(tokens[i])
         IN  IF modifier_of(token) # {}
             THEN parse_loop(tokens, i + 1, modifiers \cup modifier_of(token), code)
             ELSE LET r == other_arm(token, code)
                  IN  IF r.failed THEN ParseErr(token)
                      ELSE parse_loop(tokens, i + 1, modifiers, r.code)

parse_hotkey(s) == parse_loop(split(s), 1, {}, NoCode)

(***************************************************************************)
(* Spec strings given to the parser: up to MaxTokens raw tokens joined     *)
(* with '+'.                                                               *)
(***************************************************************************)
RawTokens == {
    <<"c","t","r","l">>,
    <<"C","o","n","t","r","o","l">>,
    <<"A","l","t">>,
    <<" ","s","h","i","f","t"," ">>,
    <<"K">>,
    <<" ","5">>,
    <<"f","n">>,
    <<>>,
    <<" ">>,
    <<"m","i","s","s","i","n","g"," ","k","e","y">>}

RECURSIVE join(_)
join(toks) ==
    IF Len(toks) = 1 THEN toks[1]
    ELSE toks[1] \o <<"+">> \o join(Tail(toks))

TokenLists == UNION {[1..n -> RawTokens] : n \in 1..MaxTokens}

\* the spec strings the documentation gives as examples
Examples == {
    <<"c","t","r","l","+","a","l","t","+","k">>,
    <<"C","T","R","L","+","A","l","t","+","K">>,
    <<"c","t","r","l">>,
    <<"x","y","z">>,
    <<"c","t","r","l","+","a","l","t","+","k","+","5">>,
    <<"c","t","r","l","+","a","l","t">>,
    <<"c","t","r","l","+","f","n">>,
    <<"c","t","r","l","+","f","n","+","k">>,
    <<"S","h","i","f","t","+","5">>,
    <<"c","o","n","t","r","o","l","+","k">>}

Inputs == {join(t) : t \in TokenLists} \cup Examples

NotParsed == [tag |-> "None", modifiers |-> {}, code |-> NoCode, msg |-> <<>>]

InitParser ==
    /\ hotkey \in Inputs
    /\ parsed = NotParsed

\* the call parse_hotkey(hotkey)
CallParse ==
    /\ parsed = NotParsed
    /\ parsed' = parse_hotkey(hotkey)
    /\ UNCHANGED hotkey

\* cfg.key of the HotkeyListener::new calls
KeySpecs == {
    <<"C","o","n","t","r","o","l","+","K">>,
    <<"S","h","i","f","t","+","5">>,
    <<"c","t","r","l","+","f","n">>}

(***************************************************************************)
(* Fallback HotkeyListener (hotkey.rs 53-56, 164-180)                      *)
(***************************************************************************)
NoLabel == <<"?">>

\* standard input: bytes of a line ("c"), line ends ("nl") and reads that
\* fail ("err"); after the last item the stream is at its end
StdinItems == {"c", "nl", "err"}

Streams == UNION {[1..n -> StdinItems] : n \in 0..MaxInput}

NoWait == [ret |-> "none", line |-> FALSE, bytes |-> 0]

FallbackIdle ==
    /\ label = NoLabel
    /\ stdin = <<>>
    /\ pos = 0
    /\ fbLast = NoWait
    /\ fbOks = 0
    /\ fbLines = 0
    /\ fbCalls = 0

InitFallback ==
    /\ label = NoLabel
    /\ stdin \in Streams
    /\ pos = 0
    /\ fbLast = NoWait
    /\ fbOks = 0
    /\ fbLines = 0
    /\ fbCalls = 0

\* lines 166-170: new never fails and keeps cfg.key as the label
FallbackNew(k) ==
    /\ label = NoLabel
    /\ label' = k
    /\ UNCHANGED <<stdin, pos, fbLast, fbOks, fbLines, fbCalls>>
    /\ UNCHANGED <<parserVars, nativeVars, transcriberVars, extractVars>>

\* lines 175-176: Stdin::read_line from item i on, n bytes read so far:
\* Ok(n) at the line end and at end of input (Ok(0) when nothing is left),
\* Err when the read fails
RECURSIVE read_line(_, _, _)
read_line(s, i, n) ==
    IF i > Len(s) THEN [ret |-> "Ok", line |-> FALSE, bytes |-> n, pos |-> Len(s)]
    ELSE IF s[i] = "err" THEN [ret |-> "Err", line |-> FALSE, bytes |-> n, pos |-> i]
    ELSE IF s[i] = "nl" THEN [ret |-> "Ok", line |-> TRUE, bytes |-> n + 1, pos |-> i]
    ELSE read_line(s, i + 1, n + 1)

\* lines 172-179: wait() of the fallback listener
FallbackWait ==
    /\ label # NoLabel
    /\ fbCalls < MaxWaits
    /\ fbCalls' = fbCalls + 1
    /\ LET r == read_line(stdin, pos + 1, 0)
       IN  /\ pos' = r.pos
           /\ fbLines' = IF r.line THEN fbLines + 1 ELSE fbLines
           /\ IF r.ret = "Err"
              THEN \* line 177: map_err(HotkeyError::Interrupt)?
                   /\ fbLast' = [ret |-> "Interrupt", line |-> r.line, bytes |-> r.bytes]
                   /\ UNCHANGED fbOks
              ELSE \* line 178
                   /\ fbLast' = [ret |-> "Ok", line |-> r.line, bytes |-> r.bytes]
                   /\ fbOks' = fbOks + 1
    /\ UNCHANGED <<label, stdin>>
    /\ UNCHANGED <<parserVars, nativeVars, transcriberVars, extractVars>>

NextFallback ==
    \/ \E k \in KeySpecs : FallbackNew(k)
    \/ FallbackWait

\* C5: the fallback wait() returns Ok(()) exactly once per completed input
\* line, never without one, and returns Err(Interrupt) when standard input
\* ends or fails before a line completes.
C5_OkOncePerCompletedLine ==
    /\ fbOks = fbLines
    /\ fbLast.ret = "Ok" => fbLast.line
    /\ (fbLast.ret # "none" /\ ~fbLast.line) => fbLast.ret = "Interrupt"

(***************************************************************************)
(* Transcriber (transcription.rs 5-56)                                     *)
(***************************************************************************)
Callers == 1..MaxCallers

NoModel == "none"

ModelPaths == {"/models/en", "/models/de"}

SampleRates == {16000}

\* audio buffers: sequences of samples
Samples == {1, 2}

Audios == UNION {[1..n -> Samples] : n \in 0..MaxSamples}

NoRecognizer == 0

NotReturned == [tag |-> "none", text |-> <<>>]

TranscriberIdle ==
    /\ model = NoModel
    /\ sample_rate = 0
    /\ pc = [c \in Callers |-> "idle"]
    /\ audio = [c \in Callers |-> <<>>]
    /\ recognizer = [c \in Callers |-> NoRecognizer]
    /\ heap = <<>>
    /\ ret = [c \in Callers |-> NotReturned]
    /\ returned = {}
    /\ created = 0
    /\ calls = 0

\* lines 11-20: Transcriber::new; loaded is the outcome of Model::new
TranscriberNew(path, rate, loaded) ==
    /\ model = NoModel
    /\ model' = IF loaded THEN path ELSE NoModel
    /\ sample_rate' = IF loaded THEN rate ELSE sample_rate
    /\ UNCHANGED <<pc, audio, recognizer, heap, ret, returned, created, calls>>
    /\ UNCHANGED <<parserVars, nativeVars, fallbackVars, extractVars>>

\* a transcribe without the fast path of lines 23-25
Transcribe_no_fast_path(c, a) ==
    /\ model # NoModel
    /\ pc[c] = "idle"
    /\ calls < MaxCalls
    /\ calls' = calls + 1
    /\ audio' = [audio EXCEPT ![c] = a]
    /\ pc' = [pc EXCEPT ![c] = "new"]
    /\ ret' = [ret EXCEPT ![c] = NotReturned]
    /\ UNCHANGED <<model, sample_rate, recognizer, heap, returned, created>>
    /\ UNCHANGED <<parserVars, nativeVars, fallbackVars, extractVars>>

\* lines 22-26: caller c enters transcribe(audio = a); an empty buffer
\* returns Ok("") at once
Transcribe(c, a) ==
    /\ model # NoModel
    /\ pc[c] = "idle"
    /\ calls < MaxCalls
    /\ calls' = calls + 1
    /\ audio' = [audio EXCEPT ![c] = a]
    /\ IF a = <<>>
       THEN /\ ret' = [ret EXCEPT ![c] = [tag |-> "Ok", text |-> <<>>]]
            /\ returned' = returned \cup {[audio |-> a, text |-> <<>>]}
            /\ UNCHANGED pc
       ELSE /\ ret' = [ret EXCEPT ![c] = NotReturned]
            /\ pc' = [pc EXCEPT ![c] = "new"]
            /\ UNCHANGED returned
    /\ UNCHANGED <<model, sample_rate, recognizer, heap, created>>
    /\ UNCHANGED <<parserVars, nativeVars, fallbackVars, extractVars>>

\* a recognizer as Recognizer::new leaves it
Fresh == [model |-> model, rate |-> sample_rate, fed |-> <<>>, feeds |-> 0]

\* a failed Recognizer::new that leaves the Transcriber without its model
RecognizerNew_poison(c, made) ==
    /\ pc[c] = "new"
    /\ IF made
       THEN /\ heap' = (created + 1 :> Fresh) @@ heap
            /\ recognizer' = [recognizer EXCEPT ![c] = created + 1]
            /\ created' = created + 1
            /\ pc' = [pc EXCEPT ![c] = "feed"]
            /\ UNCHANGED <<ret, model>>
       ELSE /\ ret' = [ret EXCEPT ![c] = [tag |-> "Recognizer", text |-> <<>>]]
            /\ pc' = [pc EXCEPT ![c] = "idle"]
            /\ model' = NoModel
            /\ UNCHANGED <<recognizer, heap, created>>
    /\ UNCHANGED <<sample_rate, audio, returned, calls>>
    /\ UNCHANGED <<parserVars, nativeVars, fallbackVars, extractVars>>

\* a Recognizer::new that hands out a recognizer that is already live
RecognizerNew_cached(c, made) ==
    /\ pc[c] = "new"
    /\ IF made
       THEN /\ IF DOMAIN heap = {}
               THEN /\ heap' = (created + 1 :> Fresh) @@ heap
                    /\ recognizer' = [recognizer EXCEPT ![c] = created + 1]
                    /\ created' = created + 1
               ELSE /\ recognizer' = [recognizer EXCEPT ![c] = CHOOSE i \in DOMAIN heap : TRUE]
                    /\ UNCHANGED <<heap, created>>
            /\ pc' = [pc EXCEPT ![c] = "feed"]
            /\ UNCHANGED ret
       ELSE /\ ret' = [ret EXCEPT ![c] = [tag |-> "Recognizer", text |-> <<>>]]
            /\ pc' = [pc EXCEPT ![c] = "idle"]
            /\ UNCHANGED <<recognizer, heap, created>>
    /\ UNCHANGED <<model, sample_rate, audio, returned, calls>>
    /\ UNCHANGED <<parserVars, nativeVars, fallbackVars, extractVars>>

\* lines 27-28: Recognizer::new(&self.model, self.sample_rate); made is its
\* outcome
RecognizerNew(c, made) ==
    /\ pc[c] = "new"
    /\ IF made
       THEN /\ heap' = (created + 1 :> Fresh) @@ heap
            /\ recognizer' = [recognizer EXCEPT ![c] = created + 1]
            /\ created' = created + 1
            /\ pc' = [pc EXCEPT ![c] = "feed"]
            /\ UNCHANGED ret
       ELSE /\ ret' = [ret EXCEPT ![c] = [tag |-> "Recognizer", text |-> <<>>]]
            /\ pc' = [pc EXCEPT ![c] = "idle"]
            /\ UNCHANGED <<recognizer, heap, created>>
    /\ UNCHANGED <<model, sample_rate, audio, returned, calls>>
    /\ UNCHANGED <<parserVars, nativeVars, fallbackVars, extractVars>>

\* an accept_waveform whose audio lands in every live recognizer
AcceptWaveform_all(c) ==
    /\ pc[c] = "feed"
    /\ heap' = [i \in DOMAIN heap |->
                  [heap[i] EXCEPT !.fed = @ \o audio[c], !.feeds = @ + 1]]
    /\ pc' = [pc EXCEPT ![c] = "final"]
    /\ UNCHANGED <<model, sample_rate, audio, recognizer, ret, returned, created, calls>>
    /\ UNCHANGED <<parserVars, nativeVars, fallbackVars, extractVars>>

\* line 29: recognizer.accept_waveform(audio)
AcceptWaveform(c) ==
    /\ pc[c] = "feed"
    /\ heap' = [heap EXCEPT ![recognizer[c]].fed = @ \o audio[c],
                            ![recognizer[c]].feeds = @ + 1]
    /\ pc' = [pc EXCEPT ![c] = "final"]
    /\ UNCHANGED <<model, sample_rate, audio, recognizer, ret, returned, created, calls>>
    /\ UNCHANGED <<parserVars, nativeVars, fallbackVars, extractVars>>

\* what the model hears in one sample
Word(m, sample) == <<m, sample>>

\* the text the model recognises in what the recognizer was fed
Heard(r) == [i \in 1..Len(r.fed) |-> Word(r.model, r.fed[i])]

\* line 30: recognizer.final_result(); the recognizer is left with the
\* default of no alternatives, which gives one hypothesis
final_result(r) == [kind |-> "Single", text |-> Heard(r), alternatives |-> <<>>]

\* an extract_text that takes the last alternative
extract_text_last(result) ==
    IF result.kind = "Single" THEN result.text
    ELSE IF result.alternatives = <<>> THEN <<>>
    ELSE result.alternatives[Len(result.alternatives)].text

\* lines 47-56
extract_text(result) ==
    IF result.kind = "Single" THEN result.text
    ELSE IF result.alternatives = <<>> THEN <<>>
    ELSE result.alternatives[1].text

\* the heap without recognizer id
Release(h, id) == [i \in DOMAIN h \ {id} |-> h[i]]

\* a transcribe that returns without dropping its recognizer
FinalResult_leak(c) ==
    /\ pc[c] = "final"
    /\ LET text == extract_text(final_result(heap[recognizer[c]]))
       IN  /\ ret' = [ret EXCEPT ![c] = [tag |-> "Ok", text |-> text]]
           /\ returned' = returned \cup {[audio |-> audio[c], text |-> text]}
    /\ pc' = [pc EXCEPT ![c] = "idle"]
    /\ UNCHANGED <<model, sample_rate, audio, recognizer, heap, created, calls>>
    /\ UNCHANGED <<parserVars, nativeVars, fallbackVars, extractVars>>

\* lines 30-32: the final result is taken, its text returned and the
\* recognizer dropped
FinalResult(c) ==
    /\ pc[c] = "final"
    /\ LET text == extract_text(final_result(heap[recognizer[c]]))
       IN  /\ ret' = [ret EXCEPT ![c] = [tag |-> "Ok", text |-> text]]
           /\ returned' = returned \cup {[audio |-> audio[c], text |-> text]}
    /\ heap' = Release(heap, recognizer[c])
    /\ recognizer' = [recognizer EXCEPT ![c] = NoRecognizer]
    /\ pc' = [pc EXCEPT ![c] = "idle"]
    /\ UNCHANGED <<model, sample_rate, audio, created, calls>>
    /\ UNCHANGED <<parserVars, nativeVars, fallbackVars, extractVars>>

NextTranscriber ==
    \/ \E path \in ModelPaths, rate \in SampleRates, loaded \in BOOLEAN :
          TranscriberNew(path, rate, loaded)
    \/ \E c \in Callers, a \in Audios : Transcribe(c, a)
    \/ \E c \in Callers, made \in BOOLEAN : RecognizerNew(c, made)
    \/ \E c \in Callers : AcceptWaveform(c)
    \/ \E c \in Callers : FinalResult(c)

\* C10: transcribe on an empty buffer returns Ok("") for every Transcriber
\* and creates no recognizer: the call is over at once, the count of
\* recognizers created is unchanged and Err(Recognizer) is not returned.
C10_EmptyBufferFastPath ==
    /\ [][\A c \in Callers : Transcribe(c, <<>>) =>
            /\ ret'[c] = [tag |-> "Ok", text |-> <<>>]
            /\ pc'[c] = "idle"
            /\ created' = created
            /\ recognizer' = recognizer
            /\ heap' = heap]_vars
    /\ [](\A c \in Callers :
            (pc[c] = "idle" /\ audio[c] = <<>> /\ ret[c] # NotReturned)
                => ret[c] = [tag |-> "Ok", text |-> <<>>])

C10_Witness ==
    \E c, d \in Callers :
        /\ c # d
        /\ created = 1
        /\ pc[d] = "final"
        /\ calls = MaxCalls
        /\ audio[c] = <<>>
        /\ pc[c] = "idle"
        /\ ret[c] = [tag |-> "Ok", text |-> <<>>]

\* the recognizers that calls in flight hold
Held == {recognizer[c] : c \in Callers} \ {NoRecognizer}

Alone(a) ==
    IF a = <<>> THEN <<>>
    ELSE extract_text(final_result([Fresh EXCEPT !.fed = a, !.feeds = 1]))

\* C12: a transcribe call that returns Err(Recognizer) leaves the
\* Transcriber usable: no step of transcribe changes the model handle or the
\* sample rate, the failing step changes nothing but the failed call's own
\* return, and every call that returns Ok, before or after a failure,
\* returns what it would have returned had no other call been made.
C12_FailureLeavesTranscriberIntact ==
    /\ [][model # NoModel => (model' = model /\ sample_rate' = sample_rate)]_vars
    /\ [][\A c \in Callers : (pc[c] = "new" /\ ret'[c].tag = "Recognizer") =>
            /\ UNCHANGED <<heap, recognizer, created, returned, audio>>
            /\ pc'[c] = "idle"
            /\ \A d \in Callers \ {c} : pc'[d] = pc[d] /\ ret'[d] = ret[d]]_vars
    /\ []((\E c \in Callers : ret[c].tag = "Recognizer") =>
            \A d \in Callers : ret[d].tag = "Ok" => ret[d].text = Alone(audio[d]))
    /\ [][\A c \in Callers : (ret[c].tag = "Recognizer" /\ ret'[c].tag = "Ok") =>
            ret'[c].text = Alone(audio'[c])]_vars

\* one caller made two calls: the first failed with Err(Recognizer), the
\* second returned the text of its non-empty buffer
C12_Witness ==
    /\ calls = 2
    /\ created = 1
    /\ \E c \in Callers :
        /\ pc[c] = "idle"
        /\ ret[c].tag = "Ok" /\ audio[c] # <<>>
        /\ ret[c].text = Alone(audio[c])
        /\ returned = {[audio |-> audio[c], text |-> ret[c].text]}
        /\ \A d \in Callers \ {c} : pc[d] = "idle" /\ ret[d] = NotReturned

InFlight(c) == pc[c] \in {"feed", "final"}

\* C13: concurrent transcribe calls on one Transcriber are independent:
\* calls in flight together hold different recognizers, a step of one call
\* changes no recognizer but its own, the model is never changed after it is
\* loaded, and every call returns what it returns when run alone.
C13_ConcurrentCallsIndependent ==
    /\ [](\A c, d \in Callers :
            (c # d /\ InFlight(c) /\ InFlight(d)) => recognizer[c] # recognizer[d])
    /\ [][\A i \in DOMAIN heap \cap DOMAIN heap' :
            heap'[i] # heap[i] =>
                \E c \in Callers :
                    /\ recognizer[c] = i /\ pc[c] = "feed" /\ pc'[c] = "final"
                    /\ \A d \in Callers \ {c} : pc'[d] = pc[d]]_vars
    /\ [][model # NoModel => model' = model]_vars
    /\ [](\A c \in Callers : ret[c].tag = "Ok" => ret[c].text = Alone(audio[c]))

\* a call on another buffer ran from Recognizer::new to its return while
\* the call of c was in flight
C13_Witness ==
    \E c, d \in Callers :
        /\ pc[c] = "final" /\ recognizer[c] = 1
        /\ created = 2
        /\ pc[d] = "idle" /\ ret[d].tag = "Ok"
        /\ audio[d] # <<>> /\ audio[d] # audio[c]

Texts == {<<>>, <<"yes">>, <<"no">>, <<"yes", "no">>}

\* the alternatives of a CompleteResult::Multiple, best first
AlternativeLists ==
    UNION {[1..n -> [text : Texts]] : n \in 0..MaxAlternatives}

\* vosk::CompleteResult as extract_text reads it
CompleteResults ==
    {[kind |-> "Single", text |-> t, alternatives |-> <<>>] : t \in Texts}
    \cup {[kind |-> "Multiple", text |-> <<>>, alternatives |-> alts] :
            alts \in AlternativeLists}

NoComplete == [kind |-> "none", text |-> <<>>, alternatives |-> <<>>]

NotExtracted == [done |-> FALSE, text |-> <<>>]

ExtractIdle == complete = NoComplete /\ extracted = NotExtracted

InitExtract == complete \in CompleteResults /\ extracted = NotExtracted

\* line 31: extract_text(result)
ExtractText ==
    /\ ~extracted.done
    /\ extracted' = [done |-> TRUE, text |-> extract_text(complete)]
    /\ UNCHANGED complete
    /\ UNCHANGED <<parserVars, nativeVars, fallbackVars, transcriberVars>>

\* C15: extract_text returns the text of a single-hypothesis result, the
\* text of the first alternative of a multi-hypothesis result, and the empty
\* string when there is no alternative; it returns a text for every result.
C15_FirstAlternativeOrEmpty ==
    /\ ~extracted.done => ENABLED ExtractText
    /\ extracted.done =>
        /\ complete.kind = "Single" => extracted.text = complete.text
        /\ (complete.kind = "Multiple" /\ complete.alternatives # <<>>)
              => extracted.text = complete.alternatives[1].text
        /\ (complete.kind = "Multiple" /\ complete.alternatives = <<>>)
              => extracted.text = <<>>

\* a result whose second alternative reads differently from its first
C15_Witness ==
    /\ extracted.done
    /\ complete.kind = "Multiple"
    /\ Len(complete.alternatives) >= 2
    /\ complete.alternatives[2].text # complete.alternatives[1].text
    /\ extracted.text = complete.alternatives[1].text

(***************************************************************************)
(* Native HotkeyListener (hotkey.rs 46-51, 132-162)                        *)
(***************************************************************************)
Listeners == 1..MaxListeners

NoId == <<>>

\* line 139, 144: HotKey::new(Some(modifiers), code).id()
HotKeyId(p) == <<p.modifiers, p.code>>

NoNew == [result |-> "none", key |-> <<>>, manager |-> FALSE, register |-> FALSE,
          channel |-> FALSE, spawned |-> FALSE]

InitNative ==
    /\ life = [l \in Listeners |-> "none"]
    /\ hotkey_id = [l \in Listeners |-> NoId]
    /\ rx = [l \in Listeners |-> <<>>]
    /\ worker = [l \in Listeners |-> "none"]
    /\ waiting = [l \in Listeners |-> FALSE]
    /\ waitRet = [l \in Listeners |-> "none"]
    /\ got = [l \in Listeners |-> <<>>]
    /\ seen = [l \in Listeners |-> 0]
    /\ registered = {}
    /\ events = <<>>
    /\ sourceOpen = TRUE
    /\ emitted = 0
    /\ lastNew = NoNew

\* line 138: parse_hotkey(&cfg.key), worked out once for each key spec
ParseOf == [k \in KeySpecs |-> parse_hotkey(k)]

\* line 141: manager.register(hotkey) fails when the hotkey is registered
RegisterFails(regs, id) == \E r \in regs : r.id = id

\* lines 49, 140: dropping the manager of listener l releases what it registered
DropManager_leak(regs, l) == regs

DropManager(regs, l) == {r \in regs : r.owner # l}

\* what one new call reports about itself
NewReport(result, k, manager, register, channel, spawned) ==
    [result |-> result, key |-> k, manager |-> manager, register |-> register,
     channel |-> channel, spawned |-> spawned]

\* a new call that spawns the worker before it registers
New_spawn_first(k, mgrOk) ==
    /\ \E l \in Listeners : life[l] = "none"
    /\ LET p == ParseOf[k]
           l == CHOOSE x \in Listeners : life[x] = "none" /\ \A y \in Listeners : life[y] = "none" => x <= y
       IN  IF p.tag = "Parse"
           THEN /\ lastNew' = NewReport("Parse", k, FALSE, FALSE, FALSE, FALSE)
                /\ UNCHANGED <<life, hotkey_id, rx, worker, registered>>
           ELSE IF ~mgrOk
           THEN /\ lastNew' = NewReport("Manager", k, TRUE, FALSE, FALSE, FALSE)
                /\ UNCHANGED <<life, hotkey_id, rx, worker, registered>>
           ELSE IF RegisterFails(registered, HotKeyId(p))
           THEN /\ lastNew' = NewReport("Register", k, TRUE, TRUE, TRUE, TRUE)
                /\ worker' = [worker EXCEPT ![l] = "running"]
                /\ hotkey_id' = [hotkey_id EXCEPT ![l] = HotKeyId(p)]
                /\ registered' = DropManager(registered, l)
                /\ UNCHANGED <<life, rx>>
           ELSE /\ lastNew' = NewReport("Ok", k, TRUE, TRUE, TRUE, TRUE)
                /\ registered' = registered \cup {[id |-> HotKeyId(p), owner |-> l]}
                /\ hotkey_id' = [hotkey_id EXCEPT ![l] = HotKeyId(p)]
                /\ rx' = [rx EXCEPT ![l] = <<>>]
                /\ worker' = [worker EXCEPT ![l] = "running"]
                /\ life' = [life EXCEPT ![l] = "alive"]
    /\ UNCHANGED <<parserVars, fallbackVars, transcriberVars, extractVars, seen, waiting, waitRet, got, events, sourceOpen, emitted>>

\* lines 134-157: HotkeyListener::new(cfg) with cfg.key = k; mgrOk is the
\* outcome of GlobalHotKeyManager::new()
New(k, mgrOk) ==
    /\ \E l \in Listeners : life[l] = "none"
    /\ LET p == ParseOf[k]
           l == CHOOSE x \in Listeners : life[x] = "none" /\ \A y \in Listeners : life[y] = "none" => x <= y
       IN  IF p.tag = "Parse"
           THEN \* line 138
                /\ lastNew' = NewReport("Parse", k, FALSE, FALSE, FALSE, FALSE)
                /\ UNCHANGED <<life, hotkey_id, rx, worker, registered>>
           ELSE IF ~mgrOk
           THEN \* line 140
                /\ lastNew' = NewReport("Manager", k, TRUE, FALSE, FALSE, FALSE)
                /\ UNCHANGED <<life, hotkey_id, rx, worker, registered>>
           ELSE IF RegisterFails(registered, HotKeyId(p))
           THEN \* line 141: the manager is dropped on return
                /\ lastNew' = NewReport("Register", k, TRUE, TRUE, FALSE, FALSE)
                /\ registered' = DropManager(registered, l)
                /\ UNCHANGED <<life, hotkey_id, rx, worker>>
           ELSE \* lines 142-156
                /\ lastNew' = NewReport("Ok", k, TRUE, TRUE, TRUE, TRUE)
                /\ registered' = registered \cup {[id |-> HotKeyId(p), owner |-> l]}
                /\ hotkey_id' = [hotkey_id EXCEPT ![l] = HotKeyId(p)]
                /\ rx' = [rx EXCEPT ![l] = <<>>]
                /\ worker' = [worker EXCEPT ![l] = "running"]
                /\ life' = [life EXCEPT ![l] = "alive"]
    /\ UNCHANGED <<parserVars, fallbackVars, transcriberVars, extractVars, seen, waiting, waitRet, got, events, sourceOpen, emitted>>

\* the listener goes out of scope: rx, _manager and _hotkey are dropped
\* (lines 47-51) and with them what its caller saw of wait(); the worker
\* thread is detached and keeps its tx
Drop(l) ==
    /\ life[l] = "alive"
    /\ life' = [life EXCEPT ![l] = "dropped"]
    /\ registered' = DropManager(registered, l)
    /\ rx' = [rx EXCEPT ![l] = <<>>]
    /\ waiting' = [waiting EXCEPT ![l] = FALSE]
    /\ waitRet' = [waitRet EXCEPT ![l] = "none"]
    /\ got' = [got EXCEPT ![l] = <<>>]
    /\ UNCHANGED <<parserVars, fallbackVars, transcriberVars, extractVars, seen, hotkey_id, worker, events, sourceOpen, emitted, lastNew>>

\* the OS posts an event for a registered hotkey into the process-wide
\* channel read on line 146
OsEvent(id) ==
    /\ sourceOpen
    /\ emitted < MaxEvents
    /\ \E r \in registered : r.id = id
    /\ emitted' = emitted + 1
    /\ events' = Append(events, [id |-> id, serial |-> emitted + 1])
    /\ UNCHANGED <<parserVars, fallbackVars, transcriberVars, extractVars, seen, life, hotkey_id, rx, worker, waiting, waitRet, got,
                   registered, sourceOpen, lastNew>>

\* the sender of the process-wide channel goes away: recv() on line 146
\* returns Err once the channel is drained
SourceClose ==
    /\ sourceOpen
    /\ sourceOpen' = FALSE
    /\ UNCHANGED <<parserVars, fallbackVars, transcriberVars, extractVars, seen, life, hotkey_id, rx, worker, waiting, waitRet, got,
                   registered, events, emitted, lastNew>>

\* line 148: tx.send(()) queues a signal unless the receiver is dropped;
\* the failure is ignored
Send(q, alive, serial) == IF alive THEN Append(q, serial) ELSE q

\* a worker loop without the id test of line 147
WorkerRecv_forward_all(w) ==
    /\ worker[w] = "running"
    /\ events # <<>>
    /\ events' = Tail(events)
    /\ rx' = [rx EXCEPT ![w] = Send(rx[w], life[w] = "alive", Head(events).serial)]
    /\ seen' = IF Head(events).id = hotkey_id[w]
               THEN [seen EXCEPT ![w] = @ + 1]
               ELSE seen
    /\ UNCHANGED <<parserVars, fallbackVars, transcriberVars, extractVars, life, hotkey_id, worker, waiting, waitRet, got,
                   registered, sourceOpen, emitted, lastNew>>

\* lines 146-150: one turn of the worker loop with Ok(evt)
WorkerRecv(w) ==
    /\ worker[w] = "running"
    /\ events # <<>>
    /\ events' = Tail(events)
    /\ rx' = IF Head(events).id = hotkey_id[w]
             THEN [rx EXCEPT ![w] = Send(rx[w], life[w] = "alive", Head(events).serial)]
             ELSE rx
    /\ seen' = IF Head(events).id = hotkey_id[w]
               THEN [seen EXCEPT ![w] = @ + 1]
               ELSE seen
    /\ UNCHANGED <<parserVars, fallbackVars, transcriberVars, extractVars, life, hotkey_id, worker, waiting, waitRet, got,
                   registered, sourceOpen, emitted, lastNew>>

\* line 146: recv() returns Err, the loop and the thread end, tx is dropped
WorkerExit(w) ==
    /\ worker[w] = "running"
    /\ events = <<>>
    /\ ~sourceOpen
    /\ worker' = [worker EXCEPT ![w] = "exited"]
    /\ UNCHANGED <<parserVars, fallbackVars, transcriberVars, extractVars, seen, life, hotkey_id, rx, waiting, waitRet, got,
                   registered, events, sourceOpen, emitted, lastNew>>

\* line 159: wait() is called and suspends in rx.recv()
WaitCall(l) ==
    /\ life[l] = "alive"
    /\ ~waiting[l]
    /\ waiting' = [waiting EXCEPT ![l] = TRUE]
    /\ UNCHANGED <<parserVars, fallbackVars, transcriberVars, extractVars, seen, life, hotkey_id, rx, worker, waitRet, got,
                   registered, events, sourceOpen, emitted, lastNew>>

\* mpsc recv(): Some(()) while a signal is queued, None once every sender
\* is dropped and the queue is empty, pending otherwise
RecvReady(q, senders) == q # <<>> \/ senders = 0

Recv_closed_first(q, senders) == IF senders = 0 THEN "None" ELSE "Some"

Recv(q, senders) == IF q # <<>> THEN "Some" ELSE "None"

Senders(l) == IF worker[l] = "running" THEN 1 ELSE 0

\* line 160: rx.recv().await.ok_or(HotkeyError::Channel)
WaitReturn(l) ==
    /\ life[l] = "alive"
    /\ waiting[l]
    /\ RecvReady(rx[l], Senders(l))
    /\ waiting' = [waiting EXCEPT ![l] = FALSE]
    /\ IF Recv(rx[l], Senders(l)) = "Some"
       THEN /\ waitRet' = [waitRet EXCEPT ![l] = "Ok"]
            /\ got' = [got EXCEPT ![l] = Append(got[l], Head(rx[l]))]
            /\ rx' = [rx EXCEPT ![l] = Tail(rx[l])]
       ELSE /\ waitRet' = [waitRet EXCEPT ![l] = "Channel"]
            /\ UNCHANGED <<got, rx>>
    /\ UNCHANGED <<parserVars, fallbackVars, transcriberVars, extractVars, seen, life, hotkey_id, worker, registered, events,
                   sourceOpen, emitted, lastNew>>

Next ==
    \/ \E k \in KeySpecs, mgrOk \in BOOLEAN : New(k, mgrOk)
    \/ \E l \in Listeners : Drop(l)
    \/ \E l \in Listeners : OsEvent(hotkey_id[l])
    \/ SourceClose
    \/ \E w \in Listeners : WorkerRecv(w)
    \/ \E w \in Listeners : WorkerExit(w)
    \/ \E l \in Listeners : WaitCall(l)
    \/ \E l \in Listeners : WaitReturn(l)

ParserIdle == hotkey = <<>> /\ parsed = NotParsed

Init == InitNative /\ ParserIdle /\ FallbackIdle /\ TranscriberIdle /\ ExtractIdle

\* the native listener; the parser runs inside new
Spec == Init /\ [][Next]_vars

(***************************************************************************)
(* Properties of the native listener                                       *)
(***************************************************************************)
OnlyAlive(l) ==
    /\ life[l] = "alive"
    /\ \A m \in Listeners \ {l} : life[m] # "alive"

\* a step in which some worker takes the next event off the OS channel
EventTaken == events # <<>> /\ events' = Tail(events)

\* C1: with a single listener alive, every OS event carrying its hotkey id
\* is forwarded as exactly one signal into its channel, a queued signal is
\* never dropped, and wait() returns Ok(()) once per signal, oldest first.
C1_EveryMatchingEventSignalled ==
    [][\A l \in Listeners : (OnlyAlive(l) /\ life'[l] = "alive") =>
          /\ (EventTaken /\ Head(events).id = hotkey_id[l])
                => rx'[l] = Append(rx[l], Head(events).serial)
          /\ (EventTaken /\ Head(events).id # hotkey_id[l]) => rx'[l] = rx[l]
          /\ got'[l] # got[l]
                => /\ rx[l] # <<>>
                   /\ got'[l] = Append(got[l], Head(rx[l]))
                   /\ rx'[l] = Tail(rx[l])
          /\ got'[l] \o rx'[l] \in {got[l] \o rx[l]} \cup
                {Append(got[l] \o rx[l], n) : n \in 1..MaxEvents}]_vars

\* C2: dropping a listener releases its registration: no registration
\* outlives its listener, no hotkey is registered twice, and new fails with
\* Register only when a listener that is still alive holds the same hotkey,
\* so that new for the key spec of a dropped listener registers again.
C2_NoResidualRegistration ==
    /\ [](\A r \in registered : life[r.owner] = "alive" /\ hotkey_id[r.owner] = r.id)
    /\ [](\A r1, r2 \in registered : r1.id = r2.id => r1 = r2)
    /\ [][\A k \in KeySpecs, mgrOk \in BOOLEAN :
            (New(k, mgrOk) /\ lastNew'.result = "Register")
                => \E l \in Listeners :
                      /\ life[l] = "alive"
                      /\ hotkey_id[l] = HotKeyId(ParseOf[k])]_vars

C2_Witness ==
    \E a, b \in Listeners :
        /\ life[a] = "dropped"
        /\ life[b] = "alive"
        /\ hotkey_id[a] = hotkey_id[b]
        /\ lastNew.result = "Ok"
        /\ registered = {[id |-> hotkey_id[b], owner |-> b]}

\* the channel of listener l has lost its only sender
SenderGone(l) == worker[l] = "exited"

\* C3 as stated: wait() fails with Channel whenever the channel is closed,
\* and in every other state returns Ok(()) for a queued signal or stays
\* suspended.
C3_ClosedAlwaysFails ==
    /\ [][\A l \in Listeners : WaitReturn(l) =>
            IF SenderGone(l)
            THEN waitRet'[l] = "Channel"
            ELSE rx[l] # <<>> /\ waitRet'[l] = "Ok"]_vars
    /\ [](\A l \in Listeners :
            (life[l] = "alive" /\ waiting[l] /\ ~SenderGone(l) /\ rx[l] = <<>>)
                => ~ENABLED WaitReturn(l))

\* C3 as the code has it: wait() fails with Channel when the channel is
\* closed (its worker is gone) and no signal is left in the queue; a signal
\* queued before the close is still returned as Ok(()); in every other
\* state wait() returns Ok(()) for a queued signal or stays suspended. A
\* dropped listener has no channel left to wait on.
C3_ClosedAndDrainedFails ==
    /\ [][\A l \in Listeners : WaitReturn(l) =>
            IF rx[l] # <<>>
            THEN waitRet'[l] = "Ok" /\ rx'[l] = Tail(rx[l])
            ELSE SenderGone(l) /\ waitRet'[l] = "Channel" /\ rx'[l] = rx[l]]_vars
    /\ [](\A l \in Listeners :
            /\ (life[l] = "alive" /\ waiting[l] /\ ~SenderGone(l) /\ rx[l] = <<>>)
                  => ~ENABLED WaitReturn(l)
            /\ (life[l] = "alive" /\ waiting[l] /\ SenderGone(l))
                  => ENABLED WaitReturn(l)
            /\ life[l] = "dropped" => (rx[l] = <<>> /\ ~ENABLED WaitReturn(l)))

C3_Witness ==
    \E l \in Listeners :
        /\ life[l] = "alive"
        /\ SenderGone(l)
        /\ got[l] # <<>>
        /\ rx[l] = <<>>
        /\ waitRet[l] = "Channel"

\* C4: new does not partially succeed: a call that returns Err leaves no
\* registration, worker, channel or listener behind; Parse is returned
\* before a manager is created and Manager before a registration is tried.
C4_NewIsAllOrNothing ==
    /\ [][\A k \in KeySpecs, mgrOk \in BOOLEAN :
            (New(k, mgrOk) /\ lastNew'.result # "Ok") =>
                /\ UNCHANGED <<registered, worker, rx, life, hotkey_id>>
                /\ ~lastNew'.channel /\ ~lastNew'.spawned
                /\ lastNew'.result = "Parse" => ~lastNew'.manager
                /\ lastNew'.result = "Manager" => ~lastNew'.register]_vars
    /\ [](\A l \in Listeners : life[l] = "none" => (worker[l] = "none" /\ rx[l] = <<>>))

C4_Witness ==
    /\ lastNew.result = "Register"
    /\ lastNew.manager /\ lastNew.register
    /\ \E l \in Listeners :
          /\ life[l] = "alive"
          /\ hotkey_id[l] = HotKeyId(ParseOf[lastNew.key])
          /\ registered = {[id |-> hotkey_id[l], owner |-> l]}
          /\ \A m \in Listeners \ {l} : life[m] = "none" /\ worker[m] = "none"

\* C16: once a listener is dropped its worker takes no further event off
\* the process-wide channel, so that a listener constructed afterwards,
\* alone alive, gets a signal for every event carrying its id.
C16_DroppedWorkerTakesNoEvent ==
    [][\A w \in Listeners : life[w] = "dropped" =>
          /\ ~WorkerRecv(w)
          /\ \A l \in Listeners :
                (OnlyAlive(l) /\ life'[l] = "alive" /\ EventTaken
                    /\ Head(events).id = hotkey_id[l])
                    => rx'[l] = Append(rx[l], Head(events).serial)]_vars

\* no worker of a dropped listener is left running
NoStale == \A w \in Listeners : worker[w] = "running" => life[w] = "alive"

\* C17: with two listeners alive at once and no other worker around, every
\* event carrying the id of one of them puts exactly one signal into that
\* listener's channel and none into the other's: the other listener's worker
\* never takes the event and discards it.
C17_EachListenerGetsItsEvents ==
    [][\A a, b \in Listeners :
          (/\ a # b /\ NoStale
           /\ life[a] = "alive" /\ life[b] = "alive"
           /\ EventTaken /\ Head(events).id = hotkey_id[a])
          => /\ rx'[a] = Append(rx[a], Head(events).serial)
             /\ rx'[b] = rx[b]]_vars

\* C19: wait() returns Ok(()) only by taking one signal off its channel, a
\* signal enters the channel only when the listener's worker receives an
\* event carrying the listener's id, so the Ok(()) returns never outnumber
\* the matching events the worker has seen; with an empty channel and the
\* worker alive, wait() cannot return.
C19_OkOnlyForMatchingEvent ==
    /\ [](\A l \in Listeners : life[l] = "alive" => Len(got[l]) + Len(rx[l]) <= seen[l])
    /\ [][\A l \in Listeners : Len(rx'[l]) > Len(rx[l]) =>
            /\ events # <<>> /\ events' = Tail(events)
            /\ Head(events).id = hotkey_id[l]
            /\ rx'[l] = Append(rx[l], Head(events).serial)
            /\ seen'[l] = seen[l] + 1]_vars
    /\ [][\A l \in Listeners : (waiting[l] /\ ~waiting'[l] /\ waitRet'[l] = "Ok") =>
            /\ rx[l] # <<>>
            /\ rx'[l] = Tail(rx[l])
            /\ got'[l] = Append(got[l], Head(rx[l]))]_vars
    /\ [][\A l \in Listeners : (life'[l] = "alive" /\ got'[l] # got[l]) =>
            (waiting[l] /\ ~waiting'[l] /\ waitRet'[l] = "Ok")]_vars
    /\ [](\A l \in Listeners :
            (life[l] = "alive" /\ waiting[l] /\ rx[l] = <<>> /\ worker[l] = "running")
                => ~ENABLED WaitReturn(l))

\* two listeners alive, two events posted and taken: wait() of l returned
\* Ok(()) for the one event its worker saw and is suspended again
C19_Witness ==
    \E l, m \in Listeners :
        /\ l # m /\ life[l] = "alive" /\ life[m] = "alive"
        /\ emitted = 2 /\ events = <<>>
        /\ seen[l] = 1 /\ Len(got[l]) = 1 /\ waitRet[l] = "Ok"
        /\ seen[m] = 0
        /\ waiting[l] /\ rx[l] = <<>> /\ worker[l] = "running"

(***************************************************************************)
(* The parser on its own                                                   *)
(***************************************************************************)
NextParse == CallParse /\ UNCHANGED <<nativeVars, fallbackVars, transcriberVars, extractVars>>

InitFallbackSpec == InitFallback /\ InitNative /\ ParserIdle /\ TranscriberIdle /\ ExtractIdle

\* the fallback listener
SpecFallback == InitFallbackSpec /\ [][NextFallback]_vars

InitTranscriber == TranscriberIdle /\ InitNative /\ ParserIdle /\ FallbackIdle /\ ExtractIdle

\* the transcriber and its callers
SpecTranscriber == InitTranscriber /\ [][NextTranscriber]_vars

InitParse == InitParser /\ InitNative /\ FallbackIdle /\ TranscriberIdle /\ ExtractIdle

SpecParse == InitParse /\ [][NextParse]_vars

InitExtractSpec == InitExtract /\ InitNative /\ ParserIdle /\ FallbackIdle /\ TranscriberIdle

\* extract_text applied to every CompleteResult
SpecExtract == InitExtractSpec /\ [][ExtractText]_vars

(***************************************************************************)
(* Properties of the parser                                                *)
(***************************************************************************)
Called == parsed # NotParsed

\* a token as the grammar reads it: trimmed and lower-cased
Norm(raw) == [i \in 1..Len(trim(raw)) |-> ToLowerChar(trim(raw)[i])]

NormTokens(s) == [i \in 1..Len(split(s)) |-> Norm(split(s)[i])]

\* the spec string with every token trimmed and lower-cased
Normalised(s) == join(NormTokens(s))

CtrlNames == {<<"c","t","r","l">>, <<"c","o","n","t","r","o","l">>}

ModifierNames == CtrlNames \cup {<<"a","l","t">>, <<"s","h","i","f","t">>}

KeyNames == {<<KeyChars[i]>> : i \in 1..Len(KeyChars)}

ModifierFlag(t) ==
    IF t \in CtrlNames THEN "CONTROL" ELSE IF t = <<"a","l","t">> THEN "ALT" ELSE "SHIFT"

CodeOfKey(t) == Codes[CHOOSE i \in 1..Len(KeyChars) : KeyChars[i] = t[1]]

ModifierIdx(s) == {i \in 1..Len(split(s)) : NormTokens(s)[i] \in ModifierNames}

KeyIdx(s) == {i \in 1..Len(split(s)) : NormTokens(s)[i] \in KeyNames}

\* tokens that are neither a modifier nor one of the 36 keys
BadIdx(s) == (1..Len(split(s))) \ (ModifierIdx(s) \cup KeyIdx(s))

MinOf(S) == CHOOSE i \in S : \A j \in S : i <= j

MaxOf(S) == CHOOSE i \in S : \A j \in S : j <= i

\* the spec string with every "control" token written "ctrl"
CtrlForControl(s) ==
    join([i \in 1..Len(split(s)) |->
            IF NormTokens(s)[i] = <<"c","o","n","t","r","o","l">>
            THEN <<"c","t","r","l">> ELSE split(s)[i]])

\* C6: parse_hotkey is case-insensitive and ignores white space around
\* tokens: the result for a spec string is the result for the string with
\* each token trimmed and lower-cased; "ctrl+alt+k" and "CTRL+Alt+K" both
\* give modifiers {CTRL, ALT} and key k; "control" is a synonym of "ctrl".
C6_CaseAndSpaceInsensitive ==
    Called =>
        /\ parsed = parse_hotkey(Normalised(hotkey))
        /\ parsed = parse_hotkey(CtrlForControl(hotkey))
        /\ hotkey \in {<<"c","t","r","l","+","a","l","t","+","k">>, <<"C","T","R","L","+","A","l","t","+","K">>}
              => parsed = ParseOk({"CONTROL", "ALT"}, "KeyK")

C6_Witness ==
    /\ hotkey = <<"C","T","R","L","+","A","l","t","+","K">>
    /\ Normalised(hotkey) = <<"c","t","r","l","+","a","l","t","+","k">>
    /\ parsed = ParseOk({"CONTROL", "ALT"}, "KeyK")

\* C7: a spec string whose tokens are all modifiers (no key token) fails
\* with Parse("missing key") and never returns Ok.
C7_MissingKey ==
    (Called /\ ModifierIdx(hotkey) = 1..Len(split(hotkey)))
        => parsed = ParseErr(MissingKey)

C7_Witness ==
    /\ hotkey = <<"c","t","r","l","+","a","l","t">>
    /\ parsed = ParseErr(MissingKey)

\* C8: when some token is neither a modifier nor one of the 36 keys,
\* parse_hotkey fails with Parse carrying the first such token in input
\* order (as tokenised: trimmed, lower-cased), also when a valid key token
\* stands before or after it.
C8_FirstBadTokenReported ==
    (Called /\ BadIdx(hotkey) # {})
        => parsed = ParseErr(NormTokens(hotkey)[MinOf(BadIdx(hotkey))])

C8_Witness ==
    /\ hotkey = <<"c","t","r","l","+","f","n","+","k">>
    /\ KeyIdx(hotkey) # {}
    /\ parsed = ParseErr(<<"f","n">>)

\* C9: when every token is a modifier or a valid key and more than one key
\* token appears, parse_hotkey succeeds with the code of the LAST key token
\* and the union of all modifier tokens ("ctrl+alt+k+5" gives key 5).
C9_LastKeyWins ==
    (Called /\ BadIdx(hotkey) = {} /\ Cardinality(KeyIdx(hotkey)) > 1)
        => parsed = ParseOk({ModifierFlag(NormTokens(hotkey)[i]) : i \in ModifierIdx(hotkey)},
                            CodeOfKey(NormTokens(hotkey)[MaxOf(KeyIdx(hotkey))]))

C9_Witness ==
    /\ hotkey = <<"c","t","r","l","+","a","l","t","+","k","+","5">>
    /\ parsed = ParseOk({"CONTROL", "ALT"}, "Digit5")

\* the orders the tokens of a spec string can be written in
Perms(n) == {f \in [1..n -> 1..n] : \A i, j \in 1..n : i # j => f[i] # f[j]}

Reordered(s) ==
    {join([i \in 1..Len(split(s)) |-> split(s)[f[i]]]) : f \in Perms(Len(split(s)))}

\* the spec string with a copy of one of its modifier tokens put in
Duplicated(s) ==
    LET toks == split(s)
    IN  {join(SubSeq(toks, 1, j) \o <<toks[i]>> \o SubSeq(toks, j + 1, Len(toks))) :
            i \in ModifierIdx(s), j \in 0..Len(toks)}

LastKeyToken(s) ==
    IF KeyIdx(s) = {} THEN <<>> ELSE NormTokens(s)[MaxOf(KeyIdx(s))]

\* C18: for a spec string whose tokens are all modifiers or keys, the
\* result of parse_hotkey is the same for every reordering of the tokens
\* that leaves the same key as the last key token, and for every spec string
\* obtained by writing one of the modifier tokens once more.
C18_ModifierOrderAndMultiplicity ==
    (Called /\ BadIdx(hotkey) = {}) =>
        /\ \A t \in Reordered(hotkey) :
              LastKeyToken(t) = LastKeyToken(hotkey) => parse_hotkey(t) = parsed
        /\ \A t \in Duplicated(hotkey) : parse_hotkey(t) = parsed

C18_Witness ==
    /\ hotkey = <<"c","t","r","l","+","a","l","t","+","k">>
    /\ parsed = ParseOk({"CONTROL", "ALT"}, "KeyK")
    /\ <<"k","+","a","l","t","+","c","t","r","l">> \in Reordered(hotkey)
    /\ <<"c","t","r","l","+","a","l","t","+","c","t","r","l","+","k">> \in Duplicated(hotkey)

\* tokens that are empty once trimmed
EmptyIdx(s) == {i \in 1..Len(split(s)) : NormTokens(s)[i] = <<>>}

AllModifiers(s) == ModifierIdx(s) = 1..Len(split(s))

\* C20 as stated: a spec string with an empty token fails with Parse
\* carrying the empty string, and Parse("missing key") is returned only for
\* a string made of modifier tokens alone.
C20_EmptyTokenReported ==
    Called =>
        /\ EmptyIdx(hotkey) # {} => parsed = ParseErr(<<>>)
        /\ parsed = ParseErr(MissingKey) => AllModifiers(hotkey)

\* C20: a spec string with an empty token never parses: it fails with Parse
\* carrying its first token that is neither a modifier nor a key, which is
\* the empty string when no other such token stands before the empty one;
\* Parse("missing key") is returned for a string made of modifier tokens
\* alone and otherwise only when that first offending token itself reads
\* "missing key".
C20_EmptyTokenNeverParses ==
    Called =>
        /\ EmptyIdx(hotkey) # {} =>
              /\ parsed.tag = "Parse"
              /\ parsed.msg = NormTokens(hotkey)[MinOf(BadIdx(hotkey))]
              /\ MinOf(BadIdx(hotkey)) = MinOf(EmptyIdx(hotkey)) => parsed = ParseErr(<<>>)
        /\ parsed = ParseErr(MissingKey) =>
              \/ AllModifiers(hotkey)
              \/ /\ BadIdx(hotkey) # {}
                 /\ NormTokens(hotkey)[MinOf(BadIdx(hotkey))] = MissingKey

C20_Witness ==
    /\ hotkey = <<"c","t","r","l","+","+","K">>
    /\ EmptyIdx(hotkey) = {2}
    /\ parsed = ParseErr(<<>>)

====
